---- MODULE Spec2Model ----
(***************************************************************************)
(* Model of server.py: the request router (do_GET), the two JSON API       *)
(* handlers (handle_flights_api, handle_test_connection), the query        *)
(* adapter (get_sql_connection, query_flights) and the CORS end_headers    *)
(* override.  One request is handled at a time (socketserver.TCPServer);   *)
(* pc is the position of the handler inside the code.                      *)
(***************************************************************************)
EXTENDS Integers, Sequences, FiniteSets, TLC

\* ---- bounds of the model -------------------------------------------------
MaxRequests == 2
MaxRows == 2

\* ---- program constants ---------------------------------------------------
VersionLimit == 100

\* ---- values a pyodbc row can hold ----------------------------------------
Null == [k |-> "null"]
IntV(n) == [k |-> "int", n |-> n]
StrV(s) == [k |-> "str", s |-> s]
BytesV(n) == [k |-> "bytes", b |-> n]
DateTimeV(y, mo, d, h) == [k |-> "datetime", y |-> y, mo |-> mo, d |-> d, h |-> h]
DecimalV(u, sc) == [k |-> "decimal", units |-> u, scale |-> sc, snan |-> FALSE]
DecimalSNaN == [k |-> "decimal", units |-> 0, scale |-> 0, snan |-> TRUE]
FloatV(n, d) == [k |-> "float", num |-> n, den |-> d]

\* ---- text helpers: text is a sequence of one-character strings -----------
DigitChars == <<"0", "1", "2", "3", "4", "5", "6", "7", "8", "9">>
Digit(n) == DigitChars[n + 1]
Pad2(n) == <<Digit((n \div 10) % 10), Digit(n % 10)>>
Pad4(n) == <<Digit((n \div 1000) % 10), Digit((n \div 100) % 10)>> \o Pad2(n)

\* datetime.isoformat(): YYYY-MM-DDTHH:MM:SS (no microseconds when they are 0)
isoformat(v) ==
    Pad4(v.y) \o <<"-">> \o Pad2(v.mo) \o <<"-">> \o Pad2(v.d) \o <<"T">>
        \o Pad2(v.h) \o <<":", "0", "0", ":", "0", "0">>

Pow10(n) == IF n = 0 THEN 1 ELSE IF n = 1 THEN 10 ELSE IF n = 2 THEN 100 ELSE 1000

\* float(Decimal): the number units / 10^scale (binary rounding not modelled)
float(v) == FloatV(v.units, Pow10(v.scale))

\* str(Decimal): the textual decimal, digits of the unscaled value
strOfDecimal(v) == StrV(Pad4(v.units))

hasattr_isoformat(v) == v.k = "datetime"
isinstance_Decimal(v) == v.k = "decimal"

\* float() raises ValueError on a signalling NaN
ConversionRaises(v) == isinstance_Decimal(v) /\ v.snan

NormalizeValueStr(v) ==
    IF v.k = "null" THEN v
    ELSE IF hasattr_isoformat(v) THEN StrV(isoformat(v))
    ELSE IF isinstance_Decimal(v) THEN strOfDecimal(v)
    ELSE v

\* the body of the inner loop of query_flights
NormalizeValue(v) ==
    IF v.k = "null" THEN v
    ELSE IF hasattr_isoformat(v) THEN StrV(isoformat(v))
    ELSE IF isinstance_Decimal(v) THEN float(v)
    ELSE v

\* cursor.description of the fixed SELECT
Columns == {"id", "date", "from", "to", "price", "duration"}

NormalizeRow(row) == [c \in Columns |-> NormalizeValue(row[c])]
RowRaises(row) == \E c \in Columns : ConversionRaises(row[c])

RECURSIVE ConvertRowsReversed(_, _)
ConvertRowsReversed(rows, acc) ==
    IF rows = <<>> THEN acc
    ELSE ConvertRowsReversed(Tail(rows), <<NormalizeRow(Head(rows))>> \o acc)

\* the outer loop of query_flights: flights.append(flight) for each row
RECURSIVE ConvertRows(_, _)
ConvertRows(rows, acc) ==
    IF rows = <<>> THEN acc
    ELSE ConvertRows(Tail(rows), Append(acc, NormalizeRow(Head(rows))))

\* ---- json.dumps ----------------------------------------------------------
JsonSerializable(v) == v.k \in {"null", "int", "float", "str"}

JsonValue(v) ==
    IF v.k = "null" THEN [j |-> "null"]
    ELSE IF v.k = "str" THEN [j |-> "string", s |-> v.s]
    ELSE IF v.k = "int" THEN [j |-> "number", num |-> v.n, den |-> 1]
    ELSE [j |-> "number", num |-> v.num, den |-> v.den]

FlightsSerializable(fl) ==
    \A i \in 1..Len(fl) : \A c \in Columns : JsonSerializable(fl[i][c])

JsonFlights(fl) ==
    [j |-> "array",
     items |-> [i \in 1..Len(fl) |-> [c \in Columns |-> JsonValue(fl[i][c])]]]

\* ---- the database as the handler sees it ----------------------------------
FlightRow(id, date, from, to, price, duration) ==
    [c \in Columns |->
        CASE c = "id" -> id
          [] c = "date" -> date
          [] c = "from" -> from
          [] c = "to" -> to
          [] c = "price" -> price
          [] OTHER -> duration]

JFK == StrV(<<"J", "F", "K">>)
LAX == StrV(<<"L", "A", "X">>)

\* rows the flights table may hold (its schema is not fixed by the program)
SampleRows ==
    { FlightRow(IntV(1), DateTimeV(2024, 9, 30, 0), JFK, LAX, DecimalV(1999, 2), IntV(330)),
      FlightRow(IntV(2), DateTimeV(2024, 10, 1, 9), LAX, Null, Null, IntV(45)),
      FlightRow(IntV(3), Null, Null, JFK, IntV(200), Null),
      FlightRow(BytesV(4), DateTimeV(2024, 10, 1, 9), JFK, LAX, DecimalV(5, 0), IntV(60)),
      FlightRow(IntV(5), DateTimeV(2024, 10, 1, 9), JFK, LAX, DecimalSNaN, IntV(60)) }

\* ORDER BY date ASC as SQL Server evaluates it: NULL first, then by instant
DateKey(v) == IF v.k = "null" THEN 0 ELSE ((v.y * 100 + v.mo) * 100 + v.d) * 100 + v.h + 1

OrderedByDate(s) == \A i \in 1..(Len(s) - 1) : DateKey(s[i]["date"]) <= DateKey(s[i + 1]["date"])

\* the possible results of cursor.fetchall()
RowLists == { s \in UNION { [1..n -> SampleRows] : n \in 0..MaxRows } : OrderedByDate(s) }

\* lengths of the text SELECT @@VERSION may return
VersionLens == {0, 99, 101}

\* request targets (self.path): path and query string
Targets ==
    { [path |-> "/api/flights", query |-> ""],
      [path |-> "/api/test-connection", query |-> ""],
      [path |-> "/api/test-connection", query |-> "t=1"],
      [path |-> "/dashboard.html", query |-> ""],
      [path |-> "/api/unknown", query |-> ""] }

\* urllib.parse.urlparse(self.path).path
urlparse_path(t) == t.path

NoTarget == [path |-> "", query |-> ""]
NoFlights == [none |-> TRUE, list |-> <<>>]
NoDb == [connect |-> "-", query |-> "-", rows |-> <<>>, version |-> 0, static |-> "-"]
NoSeen == [set |-> FALSE, target |-> NoTarget, db |-> NoDb, out |-> <<>>]

VARIABLES
    pc,       \* position of the handler in the code ("idle": between requests)
    nreq,     \* number of requests accepted so far
    target,   \* self.path of the request being handled
    open,     \* database connections currently open (ids)
    conn,     \* local conn of the running handler (0: None)
    rows,     \* local rows of query_flights
    flights,  \* result of query_flights (none: None)
    version,  \* local version of handle_test_connection
    exc,      \* message of the exception being handled ("" when none)
    escaped,  \* an exception left the route and reached do_GET's except
    buf,      \* self._headers_buffer
    out,      \* what has been written to self.wfile for this request
    db,       \* how the database and file system behaved during this request
    seen      \* one earlier finished request: its target, db behaviour, output

vars == <<pc, nreq, target, open, conn, rows, flights, version, exc, escaped, buf, out, db, seen>>

\* ---- BaseHTTPRequestHandler output primitives ----------------------------
StatusLine(code) == [t |-> "status", code |-> code]
HeaderLine(name, value) == [t |-> "header", name |-> name, value |-> value]
EndOfHeaders == [t |-> "end"]
Body(json) == [t |-> "body", json |-> json]

\* send_response: status line plus the Server and Date headers, buffered
send_response(b, code) ==
    b \o <<StatusLine(code), HeaderLine("Server", "SimpleHTTP"), HeaderLine("Date", "now")>>

send_header(b, name, value) == Append(b, HeaderLine(name, value))

end_headers_plain(b) == Append(b, EndOfHeaders)

\* the overridden end_headers: three CORS headers, then the blank line; the
\* result is what flush_headers writes to wfile
end_headers(b) ==
    Append(send_header(send_header(send_header(b,
        "Access-Control-Allow-Origin", "*"),
        "Access-Control-Allow-Methods", "GET"),
        "Access-Control-Allow-Headers", "Content-Type"), EndOfHeaders)

\* send_response(code); send_header('Content-Type', 'application/json'); end_headers()
JsonHead(b, code) == end_headers(send_header(send_response(b, code), "Content-Type", "application/json"))

ErrorObject(msg) == [j |-> "object", error |-> msg]
FailObject(msg) == [j |-> "object", success |-> FALSE, error |-> msg]
OkObject(v) ==
    [j |-> "object", success |-> TRUE, message |-> "Database connection successful!",
     sql_server_version |-> IF v = 0 THEN [unknown |-> TRUE, len |-> 0]
                            ELSE [unknown |-> FALSE, len |-> IF v < VersionLimit THEN v ELSE VersionLimit]]

\* ---- get_sql_connection --------------------------------------------------
\* pyodbc.connect either returns a new connection or raises (-> None)
get_sql_connection(ok) == IF ok THEN nreq ELSE 0

Init ==
    /\ pc = "idle"
    /\ nreq = 0
    /\ target = NoTarget
    /\ open = {}
    /\ conn = 0
    /\ rows = <<>>
    /\ flights = NoFlights
    /\ version = 0
    /\ exc = ""
    /\ escaped = FALSE
    /\ buf = <<>>
    /\ out = <<>>
    /\ db = NoDb
    /\ seen = NoSeen

\* serve_forever accepts a request and constructs a fresh handler for it
Accept ==
    /\ pc = "idle"
    /\ nreq < MaxRequests
    /\ \E t \in Targets : target' = t
    /\ nreq' = nreq + 1
    /\ pc' = "do_GET"
    /\ conn' = 0
    /\ rows' = <<>>
    /\ flights' = NoFlights
    /\ version' = 0
    /\ exc' = ""
    /\ escaped' = FALSE
    /\ buf' = <<>>
    /\ out' = <<>>
    /\ db' = NoDb
    /\ UNCHANGED <<open, seen>>

\* do_GET: route on the parsed path
do_GET ==
    /\ pc = "do_GET"
    /\ pc' = IF urlparse_path(target) = "/api/flights" THEN "qf_connect"
             ELSE IF urlparse_path(target) = "/api/test-connection" THEN "tc_connect"
             ELSE "static"
    /\ UNCHANGED <<nreq, target, open, conn, rows, flights, version, exc, escaped, buf, out, db, seen>>

\* ---- query_flights ---------------------------------------------------------
\* conn = get_sql_connection(); if not conn: return None
query_flights_connect ==
    /\ pc = "qf_connect"
    /\ \E ok \in BOOLEAN :
          /\ conn' = get_sql_connection(ok)
          /\ db' = [db EXCEPT !.connect = IF ok THEN "ok" ELSE "fail"]
    /\ open' = IF conn' # 0 THEN open \cup {conn'} ELSE open
    /\ flights' = NoFlights
    /\ pc' = IF conn' # 0 THEN "qf_execute" ELSE "fl_respond"
    /\ UNCHANGED <<nreq, target, rows, version, exc, escaped, buf, out, seen>>

\* cursor = conn.cursor(); cursor.execute(query); columns = ...
query_flights_execute ==
    /\ pc = "qf_execute"
    /\ \E r \in {"ok", "cursor", "execute"} :
          /\ db' = [db EXCEPT !.query = r]
          /\ exc' = IF r = "ok" THEN "" ELSE r
          /\ pc' = IF r = "ok" THEN "qf_fetch" ELSE "qf_except"
    /\ UNCHANGED <<nreq, target, open, conn, rows, flights, version, escaped, buf, out, seen>>

\* rows = cursor.fetchall()
query_flights_fetch ==
    /\ pc = "qf_fetch"
    /\ \/ \E rs \in RowLists :
             /\ rows' = rs
             /\ db' = [db EXCEPT !.rows = rs]
             /\ exc' = ""
             /\ pc' = "qf_convert"
       \/ /\ rows' = rows
          /\ db' = [db EXCEPT !.query = "fetch"]
          /\ exc' = "fetch"
          /\ pc' = "qf_except"
    /\ UNCHANGED <<nreq, target, open, conn, flights, version, escaped, buf, out, seen>>

\* the conversion loop, up to return flights or to the first raise
query_flights_convert ==
    /\ pc = "qf_convert"
    /\ IF \E i \in 1..Len(rows) : RowRaises(rows[i])
       THEN /\ exc' = "ValueError"
            /\ flights' = flights
            /\ pc' = "qf_except"
       ELSE /\ exc' = exc
            /\ flights' = [none |-> FALSE, list |-> ConvertRows(rows, <<>>)]
            /\ pc' = "qf_finally"
    /\ UNCHANGED <<nreq, target, open, conn, rows, version, escaped, buf, out, db, seen>>

\* except Exception: ... return None
query_flights_except ==
    /\ pc = "qf_except"
    /\ flights' = NoFlights
    /\ exc' = ""
    /\ pc' = "qf_finally"
    /\ UNCHANGED <<nreq, target, open, conn, rows, version, escaped, buf, out, db, seen>>

query_flights_finally_on_success ==
    /\ pc = "qf_finally"
    /\ open' = IF conn # 0 /\ ~flights.none THEN open \ {conn} ELSE open
    /\ pc' = "fl_respond"
    /\ UNCHANGED <<nreq, target, conn, rows, flights, version, exc, escaped, buf, out, db, seen>>

\* finally: if conn: conn.close()
query_flights_finally ==
    /\ pc = "qf_finally"
    /\ open' = IF conn # 0 THEN open \ {conn} ELSE open
    /\ pc' = "fl_respond"
    /\ UNCHANGED <<nreq, target, conn, rows, flights, version, exc, escaped, buf, out, db, seen>>

\* ---- handle_flights_api ---------------------------------------------------
\* after query_flights returned: the 500 branch, or the 200 head followed by
\* json.dumps(flights), which raises TypeError on a value it cannot encode
handle_flights_api_respond ==
    /\ pc = "fl_respond"
    /\ buf' = <<>>
    /\ IF flights.none
       THEN /\ out' = out \o JsonHead(buf, 500)
                   \o <<Body(ErrorObject(<<"Failed to query flights from database. Check server console for details.">>))>>
            /\ exc' = exc
            /\ pc' = "done"
       ELSE IF FlightsSerializable(flights.list)
       THEN /\ out' = out \o JsonHead(buf, 200) \o <<Body(JsonFlights(flights.list))>>
            /\ exc' = exc
            /\ pc' = "done"
       ELSE /\ out' = out \o JsonHead(buf, 200)
            /\ exc' = "TypeError"
            /\ pc' = "fl_except"
    /\ UNCHANGED <<nreq, target, open, conn, rows, flights, version, escaped, db, seen>>

\* except Exception as e: send 500 with 'Server error: <e>'
handle_flights_api_except ==
    /\ pc = "fl_except"
    /\ out' = out \o JsonHead(buf, 500) \o <<Body(ErrorObject(<<"Server error: ", exc>>))>>
    /\ buf' = <<>>
    /\ pc' = "done"
    /\ UNCHANGED <<nreq, target, open, conn, rows, flights, version, exc, escaped, db, seen>>

\* ---- handle_test_connection -----------------------------------------------
\* conn = get_sql_connection(); if conn: ... else: ...
handle_test_connection_connect ==
    /\ pc = "tc_connect"
    /\ \E ok \in BOOLEAN :
          /\ conn' = get_sql_connection(ok)
          /\ db' = [db EXCEPT !.connect = IF ok THEN "ok" ELSE "fail"]
    /\ open' = IF conn' # 0 THEN open \cup {conn'} ELSE open
    /\ pc' = IF conn' # 0 THEN "tc_query" ELSE "tc_fail"
    /\ UNCHANGED <<nreq, target, rows, flights, version, exc, escaped, buf, out, seen>>

\* cursor = conn.cursor(); cursor.execute(...); version = cursor.fetchone()[0]
handle_test_connection_query ==
    /\ pc = "tc_query"
    /\ \/ \E v \in VersionLens :
             /\ version' = v
             /\ db' = [db EXCEPT !.query = "ok", !.version = v]
             /\ exc' = ""
             /\ pc' = "tc_close"
       \/ \E r \in {"cursor", "execute", "fetch"} :
             /\ version' = version
             /\ db' = [db EXCEPT !.query = r]
             /\ exc' = r
             /\ pc' = "tc_except"
    /\ UNCHANGED <<nreq, target, open, conn, rows, flights, escaped, buf, out, seen>>

\* conn.close()
handle_test_connection_close ==
    /\ pc = "tc_close"
    /\ open' = open \ {conn}
    /\ pc' = "tc_ok"
    /\ UNCHANGED <<nreq, target, conn, rows, flights, version, exc, escaped, buf, out, db, seen>>

handle_test_connection_ok_as_failure ==
    /\ pc = "tc_ok"
    /\ out' = out \o JsonHead(buf, 500) \o <<Body(FailObject(<<"Database connection failed">>))>>
    /\ buf' = <<>>
    /\ pc' = "done"
    /\ UNCHANGED <<nreq, target, open, conn, rows, flights, version, exc, escaped, db, seen>>

\* the 200 response: success, message, first 100 characters of the version
handle_test_connection_ok ==
    /\ pc = "tc_ok"
    /\ out' = out \o JsonHead(buf, 200) \o <<Body(OkObject(version))>>
    /\ buf' = <<>>
    /\ pc' = "done"
    /\ UNCHANGED <<nreq, target, open, conn, rows, flights, version, exc, escaped, db, seen>>

\* else: the 500 response for a connection that could not be established
handle_test_connection_fail ==
    /\ pc = "tc_fail"
    /\ out' = out \o JsonHead(buf, 500)
            \o <<Body(FailObject(<<"Could not establish database connection. Check server console for details.">>))>>
    /\ buf' = <<>>
    /\ pc' = "done"
    /\ UNCHANGED <<nreq, target, open, conn, rows, flights, version, exc, escaped, db, seen>>

\* except Exception as e: send 500 with success False and str(e)
handle_test_connection_except ==
    /\ pc = "tc_except"
    /\ out' = out \o JsonHead(buf, 500) \o <<Body(FailObject(<<exc>>))>>
    /\ buf' = <<>>
    /\ pc' = "done"
    /\ UNCHANGED <<nreq, target, open, conn, rows, flights, version, exc, escaped, db, seen>>

\* ---- the static path and the error boundary of do_GET ---------------------
FileHead(b) ==
    end_headers(send_header(send_header(send_header(send_response(b, 200),
        "Content-type", "text/html"), "Content-Length", "n"), "Last-Modified", "then"))

ErrorHead(b, code) ==
    end_headers(send_header(send_header(send_header(send_response(b, code),
        "Content-Type", "text/html;charset=utf-8"), "Connection", "close"), "Content-Length", "n"))

\* super().do_GET(): the file is served, send_error(404) answers, or an
\* exception is raised before any header or while the body is copied
static_do_GET ==
    /\ pc = "static"
    /\ buf' = <<>>
    /\ \E r \in {"file", "not_found", "raise_before", "raise_after"} :
          /\ db' = [db EXCEPT !.static = r]
          /\ out' = CASE r = "file" -> out \o FileHead(buf) \o <<Body([j |-> "file"])>>
                      [] r = "not_found" -> out \o ErrorHead(buf, 404) \o <<Body([j |-> "html"])>>
                      [] r = "raise_after" -> out \o FileHead(buf)
                      [] OTHER -> out
          /\ exc' = IF r \in {"raise_before", "raise_after"} THEN r ELSE exc
          /\ escaped' = (r \in {"raise_before", "raise_after"})
          /\ pc' = IF r \in {"raise_before", "raise_after"} THEN "do_GET_except" ELSE "done"
    /\ UNCHANGED <<nreq, target, open, conn, rows, flights, version, seen>>

do_GET_except_silent ==
    /\ pc = "do_GET_except"
    /\ pc' = "done"
    /\ UNCHANGED <<nreq, target, open, conn, rows, flights, version, exc, escaped, buf, out, db, seen>>

do_GET_except_fatal ==
    /\ pc = "do_GET_except"
    /\ pc' = "stopped"
    /\ UNCHANGED <<nreq, target, open, conn, rows, flights, version, exc, escaped, buf, out, db, seen>>

\* except Exception as e: send 500 with 'Unexpected server error: <e>'
do_GET_except ==
    /\ pc = "do_GET_except"
    /\ out' = out \o JsonHead(buf, 500) \o <<Body(ErrorObject(<<"Unexpected server error: ", exc>>))>>
    /\ buf' = <<>>
    /\ pc' = "done"
    /\ UNCHANGED <<nreq, target, open, conn, rows, flights, version, exc, escaped, db, seen>>

\* the handler returns; the server loop is ready for the next request.  seen
\* may keep this request for comparison with later ones.
Finish ==
    /\ pc = "done"
    /\ pc' = "idle"
    /\ \/ seen' = seen
       \/ /\ ~seen.set
          /\ seen' = [set |-> TRUE, target |-> target, db |-> db, out |-> out]
    /\ UNCHANGED <<nreq, target, open, conn, rows, flights, version, exc, escaped, buf, out, db>>

Handle ==
    \/ do_GET
    \/ query_flights_connect
    \/ query_flights_execute
    \/ query_flights_fetch
    \/ query_flights_convert
    \/ query_flights_except
    \/ query_flights_finally
    \/ handle_flights_api_respond
    \/ handle_flights_api_except
    \/ handle_test_connection_connect
    \/ handle_test_connection_query
    \/ handle_test_connection_close
    \/ handle_test_connection_ok
    \/ handle_test_connection_fail
    \/ handle_test_connection_except
    \/ static_do_GET
    \/ do_GET_except
    \/ Finish

Next == Accept \/ Handle

Spec == Init /\ [][Next]_vars

\* a started handler runs to its end (one thread, no blocking call modelled)
LiveSpec == Spec /\ WF_vars(Handle)

\* ==== properties =============================================================
IsFlights == urlparse_path(target) = "/api/flights"
IsTest == urlparse_path(target) = "/api/test-connection"

IsStatus(e) == e.t = "status"
IsBody(e) == e.t = "body"
Statuses(o) == SelectSeq(o, IsStatus)
Bodies(o) == SelectSeq(o, IsBody)

IsObjectWith(json, field) == json.j = "object" /\ field \in DOMAIN json

\* exactly one status line with this code, and exactly one body
Answered(code) ==
    /\ Len(Statuses(out)) = 1
    /\ Statuses(out)[1].code = code
    /\ Len(Bodies(out)) = 1

\* C1: on /api/flights the connection that get_sql_connection returned is
\* closed before anything of the response is written, and it is not open once
\* the request has finished, whatever the outcome of the query.
C1_FlightsConnectionClosed ==
    IsFlights /\ conn # 0 /\ (out # <<>> \/ pc \in {"fl_respond", "fl_except", "done", "idle"})
        => conn \notin open

C1_Witness ==
    /\ IsFlights /\ pc = "done" /\ conn # 0
    /\ db.query = "execute"
    /\ Answered(500)

\* C2: on /api/test-connection an opened connection is closed before the
\* response is written, on success and on failure of the version query, and
\* between requests no connection is left open.
C2_TestConnectionClosed ==
    /\ IsTest /\ conn # 0 /\ out # <<>> => conn \notin open
    /\ pc = "idle" => open = {}

\* C3 (as stated): a connection failure yields 500 with success false, and a
\* successful connection always yields 200 with success true.
C3_SuccessfulConnectionAlways200 ==
    IsTest /\ pc = "done" =>
        /\ db.connect = "fail" =>
              Answered(500) /\ IsObjectWith(Bodies(out)[1].json, "success")
                  /\ Bodies(out)[1].json.success = FALSE
        /\ db.connect = "ok" =>
              Answered(200) /\ IsObjectWith(Bodies(out)[1].json, "success")
                  /\ Bodies(out)[1].json.success = TRUE

\* C3 (amended): a connection failure yields 500 with success false; a
\* successful connection yields 200 with success true when the version query
\* succeeds, and 500 with success false when cursor creation, the query or
\* the fetch fails.
C3_StatusFollowsConnectionAndQuery ==
    IsTest /\ pc = "done" =>
        /\ IsObjectWith(Bodies(out)[1].json, "success")
        /\ db.connect = "fail" => Answered(500) /\ Bodies(out)[1].json.success = FALSE
        /\ db.connect = "ok" /\ db.query = "ok" => Answered(200) /\ Bodies(out)[1].json.success = TRUE
        /\ db.connect = "ok" /\ db.query # "ok" => Answered(500) /\ Bodies(out)[1].json.success = FALSE

C3_Witness ==
    /\ IsTest /\ pc = "done"
    /\ db.connect = "ok" /\ db.query = "fetch"
    /\ Answered(500)

\* a fetched value json.dumps cannot encode and the normalization leaves as is
Unencodable(v) == v.k = "bytes"

FlightsFailure ==
    \/ db.connect = "fail"
    \/ db.query # "ok"
    \/ \E i \in 1..Len(db.rows) : \E c \in Columns :
          ConversionRaises(db.rows[i][c]) \/ Unencodable(db.rows[i][c])

\* C4: on /api/flights each failure (no connection, failed query, a row value
\* that cannot be made JSON-serializable) is answered with status 500 and a
\* JSON object with an error field, and a 200 status is written only when the
\* full row list was produced and serialized.
C4_FlightsFailuresAre500 ==
    IsFlights =>
        /\ pc = "done" /\ FlightsFailure =>
              Answered(500) /\ IsObjectWith(Bodies(out)[1].json, "error")
        /\ pc \in {"fl_except", "done"} /\ (\E i \in 1..Len(out) : IsStatus(out[i]) /\ out[i].code = 200)
              => ~FlightsFailure

\* the last status line and the last body of the output
LastStatus == Statuses(out)[Len(Statuses(out))]
LastBody == Bodies(out)[Len(Bodies(out))]

Responded ==
    /\ Statuses(out) # <<>>
    /\ Bodies(out) # <<>>
    /\ escaped => LastStatus.code = 500 /\ IsObjectWith(LastBody.json, "error")
                    /\ out[Len(out)] = LastBody

CorsHeaders ==
    { HeaderLine("Access-Control-Allow-Origin", "*"),
      HeaderLine("Access-Control-Allow-Methods", "GET"),
      HeaderLine("Access-Control-Allow-Headers", "Content-Type") }

\* the header block that ends at position i starts at the nearest status line
BlockStart(i) == CHOOSE j \in 1..i : IsStatus(out[j]) /\ \A m \in (j + 1)..i : ~IsStatus(out[m])

\* C6: every header block written (API success, every 500 branch, the error
\* boundary, static responses) contains the three CORS headers, and every
\* status line written is followed by such a block.
C6_CorsOnEveryResponse ==
    /\ \A i \in 1..Len(out) : out[i].t = "end" =>
          /\ \E j \in 1..i : IsStatus(out[j])
          /\ \A h \in CorsHeaders : \E m \in BlockStart(i)..i : out[m] = h
    /\ \A j \in 1..Len(out) : IsStatus(out[j]) =>
          \E i \in j..Len(out) : out[i].t = "end" /\ BlockStart(i) = j

C6_Witness ==
    /\ pc = "done" /\ db.static = "not_found"
    /\ Answered(404)

\* C7: the response is a function of the request's path and of the behaviour
\* of the database during the request: a finished request whose path and
\* database behaviour equal those of an earlier request has the same output,
\* whatever happened in between; and every request ends with the server idle.
SameResponseAsSeen ==
    pc = "done" /\ seen.set /\ urlparse_path(seen.target) = urlparse_path(target) /\ seen.db = db
        => seen.out = out

C7_RequestsIsolated ==
    /\ []SameResponseAsSeen
    /\ (pc # "idle") ~> (pc = "idle")

\* a request repeats an earlier one that failed and left its connection open
C7_Witness ==
    /\ pc = "done" /\ seen.set /\ IsTest
    /\ urlparse_path(seen.target) = urlparse_path(target) /\ seen.db = db
    /\ seen.target # target
    /\ db.query = "execute"
    /\ \E c \in open : c < nreq

\* order of characters in ISO date text
IsoAlphabet == <<"-", "0", "1", "2", "3", "4", "5", "6", "7", "8", "9", ":", "T">>
CharCode(c) == CHOOSE i \in 1..Len(IsoAlphabet) : IsoAlphabet[i] = c

RECURSIVE TextLeq(_, _)
TextLeq(a, b) ==
    IF a = <<>> THEN TRUE
    ELSE IF b = <<>> THEN FALSE
    ELSE IF Head(a) = Head(b) THEN TextLeq(Tail(a), Tail(b))
    ELSE CharCode(Head(a)) < CharCode(Head(b))

JsonDateLeq(a, b) == a.j = "null" \/ (a.j = "string" /\ b.j = "string" /\ TextLeq(a.s, b.s))

FlightsSucceeded ==
    /\ IsFlights /\ pc = "done"
    /\ Answered(200)
    /\ Bodies(out)[1].json.j = "array"

Items == Bodies(out)[1].json.items

\* C8: a successful /api/flights response has exactly one record per fetched
\* row, in cursor order (the id of record i is the id of row i), and is sorted
\* non-decreasing by date (null first).
C8_OneRecordPerRowInOrder ==
    FlightsSucceeded =>
        /\ Len(Items) = Len(db.rows)
        /\ \A i \in 1..Len(Items) :
              Items[i]["id"].j = "number" /\ Items[i]["id"].num = db.rows[i]["id"].n
        /\ \A i \in 1..Len(Items) : \A m \in i..Len(Items) :
              JsonDateLeq(Items[i]["date"], Items[m]["date"])

C8_Witness ==
    /\ FlightsSucceeded
    /\ Len(Items) = 2
    /\ Items[1]["date"].j = "string" /\ Items[2]["date"].j = "string"
    /\ Items[1]["date"] # Items[2]["date"]

DigitVal(c) == CharCode(c) - 2
IsDigitChar(c) == c \in {DigitChars[i] : i \in 1..10}
Num2(s, i) == DigitVal(s[i]) * 10 + DigitVal(s[i + 1])

\* s is YYYY-MM-DDTHH:MM:SS and reads back as the instant v
IsIsoOf(s, v) ==
    /\ Len(s) = 19
    /\ s[5] = "-" /\ s[8] = "-" /\ s[11] = "T" /\ s[14] = ":" /\ s[17] = ":"
    /\ \A i \in {1, 2, 3, 4, 6, 7, 9, 10, 12, 13, 15, 16, 18, 19} : IsDigitChar(s[i])
    /\ Num2(s, 1) * 100 + Num2(s, 3) = v.y
    /\ Num2(s, 6) = v.mo /\ Num2(s, 9) = v.d /\ Num2(s, 12) = v.h
    /\ Num2(s, 15) = 0 /\ Num2(s, 18) = 0

NormalizedAs(v, w) ==
    CASE v.k = "null" -> w.k = "null"
      [] v.k = "datetime" -> w.k = "str" /\ IsIsoOf(w.s, v)
      [] v.k = "decimal" -> w.k = "float" /\ w.den > 0 /\ w.num * Pow10(v.scale) = v.units * w.den
      [] OTHER -> w = v

\* C9: in the list query_flights returns, every column value is the fetched
\* value mapped by its kind (null stays null, a datetime becomes its ISO text,
\* a Decimal becomes a float, anything else is unchanged); price is a number
\* or null and date is ISO text or null, also in the JSON body of a 200.
C9_NormalizationByKind ==
    /\ pc \in {"fl_respond", "fl_except", "done"} /\ IsFlights /\ ~flights.none =>
          /\ Len(flights.list) = Len(db.rows)
          /\ \A i \in 1..Len(flights.list) :
                /\ \A c \in Columns : NormalizedAs(db.rows[i][c], flights.list[i][c])
                /\ flights.list[i]["price"].k \in {"null", "int", "float"}
                /\ flights.list[i]["date"].k \in {"null", "str"}
    /\ FlightsSucceeded =>
          \A i \in 1..Len(Items) :
             /\ Items[i]["price"].j \in {"number", "null"}
             /\ Items[i]["date"].j \in {"string", "null"}

C9_Witness ==
    /\ FlightsSucceeded
    /\ \E i \in 1..Len(Items) :
          /\ db.rows[i]["price"].k = "decimal" /\ Items[i]["price"].j = "number"
          /\ db.rows[i]["date"].k = "datetime" /\ Items[i]["date"].j = "string"
    /\ \E i \in 1..Len(Items) : db.rows[i]["date"].k = "null" /\ Items[i]["date"].j = "null"

\* C10: at most one status line is written for a request, also when a failure
\* occurs after the handler has sent its status and headers.
C10_AtMostOneStatusLine == Len(Statuses(out)) <= 1

====
